---- MODULE Spec2Model ----
(***************************************************************************)
(* Model of DesignAutomationClient (src/src/design-automation.js):         *)
(*   - the paginated retrieval helpers _pager (lazy sequence of pages) and  *)
(*     _collect (one concatenated collection), as used by iterateX/listX;   *)
(*   - the activity descriptor builders and createActivity/updateActivity.  *)
(* A JavaScript string is modelled as the sequence of the pieces it was    *)
(* concatenated from, so that `+` and template literals become \o.         *)
(***************************************************************************)
EXTENDS Integers, Sequences, FiniteSets, TLC

VARIABLES remote, pg, co, act

vars == <<remote, pg, co, act>>

-----------------------------------------------------------------------------
(* Bounds of the model                                                     *)

\* longest sequence of responses the remote listing endpoint is scripted with
MaxPages == 3

\* longest list of input descriptors handed to createActivity/updateActivity
MaxInputs == 2

\* longest list of output descriptors handed to createActivity/updateActivity
MaxOutputs == 2

-----------------------------------------------------------------------------
(* Constants of the program                                                *)

DefaultHost == "https://developer.api.autodesk.com"
RootPath == "/da/us-east/v3"
ReadScopes == <<"code:all">>

\* endpoints handed to _pager/_collect by iterateEngines/listEngines and
\* iterateActivities/listActivities
Endpoints == {"/engines", "/activities"}

-----------------------------------------------------------------------------
(* The remote listing endpoint                                             *)

\* the paginationToken field of a response: absent, or a string
NoToken == "<undefined>"
Tokens == {NoToken, "", "X", "Y"}

\* the data array of the i-th response: pages 1..3 are [1,2], [3], [4,5]
PageData(i) ==
    LET first == i + (i \div 2)
    IN  IF i % 2 = 1 THEN <<first, first + 1>> ELSE <<first>>

\* the i-th response of the endpoint whose token chain is toks
Response(toks, i) == [data |-> PageData(i), paginationToken |-> toks[i]]

Scripts ==
    UNION { { [i \in 1..n |-> Response(toks, i)] : toks \in [1..n -> Tokens] }
            : n \in 1..MaxPages }

NoResponse == [data |-> <<>>, paginationToken |-> NoToken]

-----------------------------------------------------------------------------
(* Helpers shared by _pager and _collect                                   *)

\* variant that tests only for an absent token (`!== undefined`)
TruthyDefined(tok) == tok # NoToken

\* JavaScript truthiness of response.paginationToken in `while (...)`
Truthy(tok) == tok # NoToken /\ tok # ""

\* the access token the AuthProvider hands out for the n-th authenticate
\* call of caller who
AccessToken(who, n) == <<who, n>>

BearerHeaders(accessToken) == [Authorization |-> <<"Bearer ", accessToken>>]

NoHeaders == [Authorization |-> <<>>]

\* `${this.host}${RootPath}${endpoint}`
FirstUrl(endpoint) == <<DefaultHost, RootPath, endpoint>>

\* variant that loses the endpoint of the follow-up request
NextUrlWithoutEndpoint(endpoint, tok) ==
    <<DefaultHost, RootPath, "?page=", tok>>

\* `${this.host}${RootPath}${endpoint}?page=${response.paginationToken}`
NextUrl(endpoint, tok) == <<DefaultHost, RootPath, endpoint, "?page=", tok>>

AuthCall(scopes) == [op |-> "authenticate", scopes |-> scopes]

GetCall(url, headers) == [op |-> "GET", url |-> url, headers |-> headers]

NumCalls(net, op) == Cardinality({i \in 1..Len(net) : net[i].op = op})

-----------------------------------------------------------------------------
(* Arguments of createActivity/updateActivity                              *)

\* a missing optional string (undefined) is modelled as the empty string:
\* both are falsy in `if (input.description)`, `if (script)`
InputSet ==
    { [name |-> "a", description |-> ""],
      [name |-> "a", description |-> "in"],
      [name |-> "b", description |-> ""] }

OutputSet ==
    { [name |-> "a", description |-> "", localName |-> ""],
      [name |-> "a", description |-> "out", localName |-> "f"],
      [name |-> "c", description |-> "", localName |-> ""],
      [name |-> "c", description |-> "out", localName |-> ""],
      [name |-> "c", description |-> "", localName |-> "f"],
      [name |-> "c", description |-> "out", localName |-> "f"] }

SeqsUpTo(S, n) == UNION { [1..k -> S] : k \in 0..n }

\* engine identifiers "<owner>.<name>+<alias>", as the pieces they consist of
EngineId(name) == <<"Autodesk", ".", name, "+", "prod">>

EngineNames == {"AutoCAD", "3dsMax", "Revit", "Inventor", "Maya"}

Scripts3dsOrAcad == {"", "run.scr"}

ArgSets ==
    [id : {"MyActivity"}, description : {"an activity"},
     bundleName : {"MyBundle"}, bundleAlias : {"prod"},
     engine : {EngineId(n) : n \in EngineNames},
     inputs : SeqsUpTo(InputSet, MaxInputs),
     outputs : SeqsUpTo(OutputSet, MaxOutputs),
     script : Scripts3dsOrAcad]

NoArgs ==
    [id |-> "", description |-> "", bundleName |-> "", bundleAlias |-> "",
     engine |-> <<>>, inputs |-> <<>>, outputs |-> <<>>, script |-> ""]

\* this.auth.client_id
ClientId == "client"

\* the null passed as activityId by updateActivity
Null == "<null>"

-----------------------------------------------------------------------------
(* State after construction: the client exists, no call has been made      *)

PagerInit ==
    [pc |-> "none", endpoint |-> "", scopes |-> <<>>, response |-> NoResponse,
     headers |-> NoHeaders, yielded |-> <<>>, pulls |-> 0, served |-> 0,
     net |-> <<>>, outcome |-> "pending", error |-> "none"]

CollectInit ==
    [pc |-> "none", endpoint |-> "", scopes |-> <<>>, response |-> NoResponse,
     headers |-> NoHeaders, results |-> <<>>, served |-> 0,
     net |-> <<>>, outcome |-> "pending", value |-> <<>>, error |-> "none"]

ActInit ==
    [pc |-> "none", op |-> "none", args |-> NoArgs, net |-> <<>>,
     outcome |-> "pending", error |-> "none"]

Init ==
    /\ remote \in Scripts
    /\ pg = PagerInit
    /\ co = CollectInit
    /\ act = ActInit

-----------------------------------------------------------------------------
(* _pager: async generator, driven by the consumer's next()/return()       *)

\* iterateEngines()/iterateActivities(): the generator object is created,
\* nothing runs until the first next()
PagerCall ==
    /\ pg.pc = "none"
    /\ \E e \in Endpoints :
          pg' = [pg EXCEPT !.pc = "suspendedStart", !.endpoint = e,
                           !.scopes = ReadScopes]
    /\ UNCHANGED <<remote, co, act>>

\* the consumer asks for the next page: the generator runs up to its next
\* await, i.e. it calls authenticate (line 25, or line 31 when the loop
\* condition of line 30 holds) or it falls out of the loop and completes
PagerNext ==
    /\ pg.pc \in {"suspendedStart", "suspendedYield"}
    /\ IF pg.pc = "suspendedStart" \/ Truthy(pg.response.paginationToken)
         THEN pg' = [pg EXCEPT !.pc = "awaitAuth", !.pulls = @ + 1,
                               !.net = Append(@, AuthCall(pg.scopes))]
         ELSE pg' = [pg EXCEPT !.pc = "completed", !.pulls = @ + 1,
                               !.outcome = "done"]
    /\ UNCHANGED <<remote, co, act>>

\* the consumer walks away (break in for await): return() closes the
\* suspended generator without running any more of its body
PagerReturn ==
    /\ pg.pc \in {"suspendedStart", "suspendedYield"}
    /\ pg' = [pg EXCEPT !.pc = "completed", !.outcome = "returned"]
    /\ UNCHANGED <<remote, co, act>>

\* variant that builds the header once and keeps it for the later pages
PagerAuthResolveReuseToken ==
    /\ pg.pc = "awaitAuth"
    /\ LET n       == NumCalls(pg.net, "authenticate")
           headers == IF pg.served = 0
                      THEN BearerHeaders(AccessToken("pager", n))
                      ELSE pg.headers
           url     == IF pg.served = 0
                      THEN FirstUrl(pg.endpoint)
                      ELSE NextUrl(pg.endpoint, pg.response.paginationToken)
       IN  pg' = [pg EXCEPT !.pc = "awaitGet", !.headers = headers,
                            !.net = Append(@, GetCall(url, headers))]
    /\ UNCHANGED <<remote, co, act>>

\* authenticate resolved: the header is (re)written and the GET is issued,
\* to the bare endpoint for the first page (lines 26-27) and with
\* ?page=<token of the last response> afterwards (lines 32-33)
PagerAuthResolve ==
    /\ pg.pc = "awaitAuth"
    /\ LET n       == NumCalls(pg.net, "authenticate")
           headers == BearerHeaders(AccessToken("pager", n))
           url     == IF pg.served = 0
                      THEN FirstUrl(pg.endpoint)
                      ELSE NextUrl(pg.endpoint, pg.response.paginationToken)
       IN  pg' = [pg EXCEPT !.pc = "awaitGet", !.headers = headers,
                            !.net = Append(@, GetCall(url, headers))]
    /\ UNCHANGED <<remote, co, act>>

\* authenticate rejected: the exception leaves the generator, which is
\* thereby completed; the pending next() rejects
PagerAuthReject ==
    /\ pg.pc = "awaitAuth"
    /\ pg' = [pg EXCEPT !.pc = "completed", !.outcome = "thrown",
                        !.error = "AuthenticationFailure"]
    /\ UNCHANGED <<remote, co, act>>

\* read-ahead variant: the next authenticate is issued as soon as a page
\* with a token arrives, before the consumer asks
PagerGetResolvePrefetch ==
    /\ pg.pc = "awaitGet"
    /\ pg.served < Len(remote)
    /\ LET response == remote[pg.served + 1]
       IN  pg' = [pg EXCEPT !.pc = "suspendedYield", !.response = response,
                            !.served = @ + 1,
                            !.yielded = Append(@, response.data),
                            !.net = IF Truthy(response.paginationToken)
                                    THEN Append(@, AuthCall(pg.scopes))
                                    ELSE @]
    /\ UNCHANGED <<remote, co, act>>

\* GET resolved: `yield response.data` (lines 28, 34) hands the page to the
\* consumer and suspends the generator
PagerGetResolve ==
    /\ pg.pc = "awaitGet"
    /\ pg.served < Len(remote)
    /\ LET response == remote[pg.served + 1]
       IN  pg' = [pg EXCEPT !.pc = "suspendedYield", !.response = response,
                            !.served = @ + 1,
                            !.yielded = Append(@, response.data)]
    /\ UNCHANGED <<remote, co, act>>

\* variant whose generator survives the exception and can be pulled again
PagerGetRejectResumable ==
    /\ pg.pc = "awaitGet"
    /\ pg' = [pg EXCEPT !.pc = "suspendedYield", !.outcome = "thrown",
                        !.error = "TransportFailure"]
    /\ UNCHANGED <<remote, co, act>>

\* GET rejected
PagerGetReject ==
    /\ pg.pc = "awaitGet"
    /\ pg' = [pg EXCEPT !.pc = "completed", !.outcome = "thrown",
                        !.error = "TransportFailure"]
    /\ UNCHANGED <<remote, co, act>>

-----------------------------------------------------------------------------
(* _collect: async function, runs to completion once called                *)

\* listEngines()/listActivities(): _collect starts and calls authenticate
\* (line 40)
CollectCall ==
    /\ co.pc = "none"
    /\ \E e \in Endpoints :
          co' = [co EXCEPT !.pc = "awaitAuth", !.endpoint = e,
                           !.scopes = ReadScopes,
                           !.net = Append(@, AuthCall(ReadScopes))]
    /\ UNCHANGED <<remote, pg, act>>

\* variant that forgets the page parameter
CollectAuthResolveBareUrl ==
    /\ co.pc = "awaitAuth"
    /\ LET n       == NumCalls(co.net, "authenticate")
           headers == BearerHeaders(AccessToken("collect", n))
       IN  co' = [co EXCEPT !.pc = "awaitGet", !.headers = headers,
                            !.net = Append(@, GetCall(FirstUrl(co.endpoint), headers))]
    /\ UNCHANGED <<remote, pg, act>>

\* variant that keeps the last response on the client, where both kinds of
\* call find it
CollectAuthResolveSharedResponse ==
    /\ co.pc = "awaitAuth"
    /\ LET n       == NumCalls(co.net, "authenticate")
           headers == BearerHeaders(AccessToken("collect", n))
           last    == IF pg.served > 0 THEN pg.response ELSE co.response
           url     == IF co.served = 0
                      THEN FirstUrl(co.endpoint)
                      ELSE NextUrl(co.endpoint, last.paginationToken)
       IN  co' = [co EXCEPT !.pc = "awaitGet", !.headers = headers,
                            !.net = Append(@, GetCall(url, headers))]
    /\ UNCHANGED <<remote, pg, act>>

\* authenticate resolved: header (re)written, GET issued (lines 41-42, 47-48)
CollectAuthResolve ==
    /\ co.pc = "awaitAuth"
    /\ LET n       == NumCalls(co.net, "authenticate")
           headers == BearerHeaders(AccessToken("collect", n))
           url     == IF co.served = 0
                      THEN FirstUrl(co.endpoint)
                      ELSE NextUrl(co.endpoint, co.response.paginationToken)
       IN  co' = [co EXCEPT !.pc = "awaitGet", !.headers = headers,
                            !.net = Append(@, GetCall(url, headers))]
    /\ UNCHANGED <<remote, pg, act>>

\* variant that swallows the failure and returns what it has so far
CollectAuthRejectPartial ==
    /\ co.pc = "awaitAuth"
    /\ co' = [co EXCEPT !.pc = "settled", !.outcome = "returned",
                        !.value = co.results]
    /\ UNCHANGED <<remote, pg, act>>

\* variant that asks for a token a second time before giving up
CollectAuthRejectRetry ==
    /\ co.pc = "awaitAuth"
    /\ IF NumCalls(co.net, "authenticate") <= co.served + 1
       THEN co' = [co EXCEPT !.net = Append(@, AuthCall(co.scopes))]
       ELSE co' = [co EXCEPT !.pc = "settled", !.outcome = "thrown",
                             !.error = "AuthenticationFailure"]
    /\ UNCHANGED <<remote, pg, act>>

\* authenticate rejected: the exception leaves _collect, its promise rejects
CollectAuthReject ==
    /\ co.pc = "awaitAuth"
    /\ co' = [co EXCEPT !.pc = "settled", !.outcome = "thrown",
                        !.error = "AuthenticationFailure"]
    /\ UNCHANGED <<remote, pg, act>>

\* variant that starts from an empty list and loses the first page
AccumulateDropFirst(results, served, data) ==
    IF served = 0 THEN <<>> ELSE results \o data

\* variant that concatenates the wrong way round
AccumulateReversed(results, served, data) ==
    IF served = 0 THEN data ELSE data \o results

\* the page's items as _collect adds them to results: `results =
\* response.data` for the first page (line 43), `results.concat(response.data)`
\* afterwards (line 49)
Accumulate(results, served, data) ==
    IF served = 0 THEN data ELSE results \o data

\* variant that asks for the next token and the next page at the same time
CollectGetResolveEagerAuth ==
    /\ co.pc = "awaitGet"
    /\ co.served < Len(remote)
    /\ LET response == remote[co.served + 1]
           results  == Accumulate(co.results, co.served, response.data)
       IN  IF Truthy(response.paginationToken)
           THEN co' = [co EXCEPT !.pc = "awaitAuth", !.response = response,
                                 !.served = @ + 1, !.results = results,
                                 !.net = @ \o <<AuthCall(co.scopes),
                                                GetCall(NextUrl(co.endpoint,
                                                          response.paginationToken),
                                                        co.headers)>>]
           ELSE co' = [co EXCEPT !.pc = "settled", !.response = response,
                                 !.served = @ + 1, !.results = results,
                                 !.outcome = "returned", !.value = results]
    /\ UNCHANGED <<remote, pg, act>>

\* GET resolved: the page is added to results; then either the loop goes
\* round (line 45) and authenticate is called again (line 46), or results is
\* returned (line 51)
CollectGetResolve ==
    /\ co.pc = "awaitGet"
    /\ co.served < Len(remote)
    /\ LET response == remote[co.served + 1]
           results  == Accumulate(co.results, co.served, response.data)
       IN  IF Truthy(response.paginationToken)
           THEN co' = [co EXCEPT !.pc = "awaitAuth", !.response = response,
                                 !.served = @ + 1, !.results = results,
                                 !.net = Append(@, AuthCall(co.scopes))]
           ELSE co' = [co EXCEPT !.pc = "settled", !.response = response,
                                 !.served = @ + 1, !.results = results,
                                 !.outcome = "returned", !.value = results]
    /\ UNCHANGED <<remote, pg, act>>

\* GET rejected
CollectGetReject ==
    /\ co.pc = "awaitGet"
    /\ co' = [co EXCEPT !.pc = "settled", !.outcome = "thrown",
                        !.error = "TransportFailure"]
    /\ UNCHANGED <<remote, pg, act>>

-----------------------------------------------------------------------------
(* Activity descriptors                                                    *)

\* new DesignAutomationURI(engine).name: the segment between the first "."
\* and the "+" of "<owner>.<name>+<alias>"
DesignAutomationURIName(uri) ==
    LET dots  == {i \in 1..Len(uri) : uri[i] = "."}
        d     == IF dots = {} THEN 0
                 ELSE CHOOSE i \in dots : \A j \in dots : i <= j
        plus  == {i \in 1..Len(uri) : uri[i] = "+"}
        p     == IF plus = {} THEN Len(uri) + 1
                 ELSE CHOOSE i \in plus : \A j \in plus : i <= j
    IN  SubSeq(uri, d + 1, p - 1)

\* a JavaScript array and a JavaScript string, told apart
Arr(items) == [type |-> "array", items |-> items]
Str(pieces) == [type |-> "string", pieces |-> pieces]

NoParameters == [n \in {} |-> [verb |-> "none"]]

\* config.parameters[name] = entry
SetParameter(params, name, entry) ==
    [n \in (DOMAIN params) \cup {name} |->
        IF n = name THEN entry ELSE params[n]]

\* { verb: 'get' }, plus description when the input has one
InputEntry(input) ==
    IF input.description # ""
    THEN [verb |-> "get", description |-> input.description]
    ELSE [verb |-> "get"]

\* variant that nests the localName test inside the description test
OutputEntryNestedLocalName(output) ==
    IF output.description # "" /\ output.localName # ""
    THEN [verb |-> "put", description |-> output.description,
          localName |-> output.localName]
    ELSE IF output.description # ""
    THEN [verb |-> "put", description |-> output.description]
    ELSE [verb |-> "put"]

\* { verb: 'put' }, plus description and localName when the output has them
OutputEntry(output) ==
    IF output.description # "" /\ output.localName # ""
    THEN [verb |-> "put", description |-> output.description,
          localName |-> output.localName]
    ELSE IF output.description # ""
    THEN [verb |-> "put", description |-> output.description]
    ELSE IF output.localName # ""
    THEN [verb |-> "put", localName |-> output.localName]
    ELSE [verb |-> "put"]

\* ` $(args[${input.name}].path)`
InputPlaceholder(input) == <<" $(args[", input.name, "].path)">>

\* variant that prepends each placeholder instead of appending it
RECURSIVE InputsCommandLineReversed(_)
InputsCommandLineReversed(inputs) ==
    IF inputs = <<>> THEN <<>>
    ELSE InputsCommandLineReversed(Tail(inputs)) \o InputPlaceholder(Head(inputs))

\* `for (const input of inputs)`: the text appended to commandLine[0]
RECURSIVE InputsCommandLine(_)
InputsCommandLine(inputs) ==
    IF inputs = <<>> THEN <<>>
    ELSE InputPlaceholder(Head(inputs)) \o InputsCommandLine(Tail(inputs))

\* `for (const input of inputs)`: the entries written into config.parameters
RECURSIVE InputParameters(_, _)
InputParameters(params, inputs) ==
    IF inputs = <<>> THEN params
    ELSE InputParameters(
            SetParameter(params, Head(inputs).name, InputEntry(Head(inputs))),
            Tail(inputs))

\* `for (const output of outputs)`: the entries written into config.parameters
RECURSIVE OutputParameters(_, _)
OutputParameters(params, outputs) ==
    IF outputs = <<>> THEN params
    ELSE OutputParameters(
            SetParameter(params, Head(outputs).name, OutputEntry(Head(outputs))),
            Tail(outputs))

\* `${ownerId}.${bundleName}+${bundleAlias}`
AppBundleRef(ownerId, bundleName, bundleAlias) ==
    <<ownerId, ".", bundleName, "+", bundleAlias>>

\* the command line of the three variants that keep it in a one-element
\* array: base, then ' /i' and the placeholders when there are inputs
ArrayCommandLine(exe, bundleName, inputs) ==
    <<"$(engine.path)\\", exe, " /al $(appbundles[", bundleName, "].path)">>
        \o (IF Len(inputs) > 0 THEN <<" /i">> \o InputsCommandLine(inputs)
            ELSE <<>>)

_inventorActivityConfig(activityId, description, ownerId, bundleName, bundleAlias, engine, inputs, outputs) ==
    LET config ==
          [commandLine |-> Arr(<<Str(ArrayCommandLine("InventorCoreConsole.exe", bundleName, inputs))>>),
           parameters  |-> OutputParameters(InputParameters(NoParameters, inputs), outputs),
           description |-> description,
           engine      |-> engine,
           appbundles  |-> Arr(<<AppBundleRef(ownerId, bundleName, bundleAlias)>>)]
    IN  IF activityId # Null /\ activityId # ""
        THEN [id |-> activityId] @@ config
        ELSE config

\* variant that keeps the command line in a plain string, as 3dsMax does
_revitActivityConfigStringCommand(activityId, description, ownerId, bundleName, bundleAlias, engine, inputs, outputs) ==
    [id          |-> activityId,
     commandLine |-> Str(ArrayCommandLine("revitcoreconsole.exe", bundleName, inputs)),
     parameters  |-> OutputParameters(InputParameters(NoParameters, inputs), outputs),
     description |-> description,
     engine      |-> engine,
     appbundles  |-> Arr(<<AppBundleRef(ownerId, bundleName, bundleAlias)>>)]

_revitActivityConfig(activityId, description, ownerId, bundleName, bundleAlias, engine, inputs, outputs) ==
    [id          |-> activityId,
     commandLine |-> Arr(<<Str(ArrayCommandLine("revitcoreconsole.exe", bundleName, inputs))>>),
     parameters  |-> OutputParameters(InputParameters(NoParameters, inputs), outputs),
     description |-> description,
     engine      |-> engine,
     appbundles  |-> Arr(<<AppBundleRef(ownerId, bundleName, bundleAlias)>>)]

\* variant that appends the script switch before the inputs are handled
_autocadActivityConfigScriptFirst(activityId, description, ownerId, bundleName, bundleAlias, engine, inputs, outputs, script) ==
    LET config ==
          [id          |-> activityId,
           commandLine |-> Arr(<<Str(ArrayCommandLine("accoreconsole.exe", bundleName, <<>>)
                                     \o (IF script # ""
                                         THEN <<" /s $(settings[script].path)">>
                                         ELSE <<>>)
                                     \o (IF Len(inputs) > 0
                                         THEN <<" /i">> \o InputsCommandLine(inputs)
                                         ELSE <<>>))>>),
           parameters  |-> OutputParameters(InputParameters(NoParameters, inputs), outputs),
           description |-> description,
           engine      |-> engine,
           appbundles  |-> Arr(<<AppBundleRef(ownerId, bundleName, bundleAlias)>>)]
    IN  IF script # ""
        THEN [settings |-> [script |-> script]] @@ config
        ELSE config

_autocadActivityConfig(activityId, description, ownerId, bundleName, bundleAlias, engine, inputs, outputs, script) ==
    LET config ==
          [id          |-> activityId,
           commandLine |-> Arr(<<Str(ArrayCommandLine("accoreconsole.exe", bundleName, inputs)
                                     \o (IF script # ""
                                         THEN <<" /s $(settings[script].path)">>
                                         ELSE <<>>))>>),
           parameters  |-> OutputParameters(InputParameters(NoParameters, inputs), outputs),
           description |-> description,
           engine      |-> engine,
           appbundles  |-> Arr(<<AppBundleRef(ownerId, bundleName, bundleAlias)>>)]
    IN  IF script # ""
        THEN [settings |-> [script |-> script]] @@ config
        ELSE config

\* what a builder that throws leaves behind instead of a descriptor
Thrown(message) == [thrown |-> message]

SingleInputOnly == "3dsMax engine only supports single input file."

\* the descriptor _3dsmaxActivityConfig fills in when it does not throw:
\* commandLine is one string; the single input, if any, goes after -sceneFile
Config3dsmax(activityId, description, ownerId, bundleName, bundleAlias, engine, inputs, outputs, script) ==
    LET config ==
          [id          |-> activityId,
           commandLine |-> Str(<<"$(engine.path)\\3dsmaxbatch.exe">>
                               \o (IF Len(inputs) > 0
                                   THEN <<" -sceneFile \"$(args[", inputs[1].name, "].path)\"">>
                                   ELSE <<>>)
                               \o (IF script # ""
                                   THEN <<" \"$(settings[script].path)\"">>
                                   ELSE <<>>)),
           parameters  |-> OutputParameters(
                              InputParameters(NoParameters,
                                  IF Len(inputs) > 0 THEN <<inputs[1]>> ELSE <<>>),
                              outputs),
           description |-> description,
           engine      |-> engine,
           appbundles  |-> Arr(<<AppBundleRef(ownerId, bundleName, bundleAlias)>>)]
    IN  IF script # ""
        THEN [settings |-> [script |-> script]] @@ config
        ELSE config

\* variant without the input count check: further inputs are dropped
_3dsmaxActivityConfigUnchecked(activityId, description, ownerId, bundleName, bundleAlias, engine, inputs, outputs, script) ==
    Config3dsmax(activityId, description, ownerId, bundleName, bundleAlias,
                 engine, inputs, outputs, script)

_3dsmaxActivityConfig(activityId, description, ownerId, bundleName, bundleAlias, engine, inputs, outputs, script) ==
    IF Len(inputs) > 1
    THEN Thrown(SingleInputOnly)
    ELSE Config3dsmax(activityId, description, ownerId, bundleName, bundleAlias,
                      engine, inputs, outputs, script)

\* `let config;` left unassigned by the switch
Undefined == [undefined |-> TRUE]

\* the switch on engineUri.name of createActivity and updateActivity;
\* activityId is the id for createActivity and null for updateActivity
SwitchEngine(activityId, a) ==
    LET name == DesignAutomationURIName(a.engine)
    IN  CASE name = <<"AutoCAD">> ->
               _autocadActivityConfig(activityId, a.description, ClientId,
                   a.bundleName, a.bundleAlias, a.engine, a.inputs, a.outputs, a.script)
          [] name = <<"3dsMax">> ->
               _3dsmaxActivityConfig(activityId, a.description, ClientId,
                   a.bundleName, a.bundleAlias, a.engine, a.inputs, a.outputs, a.script)
          [] name = <<"Revit">> ->
               _revitActivityConfig(activityId, a.description, ClientId,
                   a.bundleName, a.bundleAlias, a.engine, a.inputs, a.outputs)
          [] name = <<"Inventor">> ->
               _inventorActivityConfig(activityId, a.description, ClientId,
                   a.bundleName, a.bundleAlias, a.engine, a.inputs, a.outputs)
          [] OTHER -> Undefined

IsThrown(config) == "thrown" \in DOMAIN config

\* createActivity(id, description, bundleName, bundleAlias, engine, inputs,
\* outputs, script): the first thing it does is call authenticate
createActivity ==
    /\ act.pc = "none"
    /\ \E a \in ArgSets :
          act' = [act EXCEPT !.pc = "awaitAuth", !.op = "createActivity",
                             !.args = a,
                             !.net = Append(@, AuthCall(ReadScopes))]
    /\ UNCHANGED <<remote, pg, co>>

\* updateActivity(id, description, bundleName, bundleAlias, engine, inputs,
\* outputs, script)
updateActivity ==
    /\ act.pc = "none"
    /\ \E a \in ArgSets :
          act' = [act EXCEPT !.pc = "awaitAuth", !.op = "updateActivity",
                             !.args = a,
                             !.net = Append(@, AuthCall(ReadScopes))]
    /\ UNCHANGED <<remote, pg, co>>

\* `${this.host}${RootPath}/activities` and
\* `${this.host}${RootPath}/activities/${id}/versions`
ActivityUrl(op, id) ==
    IF op = "createActivity"
    THEN <<DefaultHost, RootPath, "/activities">>
    ELSE <<DefaultHost, RootPath, "/activities/", id, "/versions">>

PostCall(url, json, headers) ==
    [op |-> "POST", url |-> url, json |-> json, headers |-> headers]

\* authenticate resolved: the engine identifier is parsed, the switch builds
\* the descriptor (or a builder throws, which rejects the call), and the
\* descriptor is posted
ActivityAuthResolve ==
    /\ act.pc = "awaitAuth"
    /\ LET headers == BearerHeaders(AccessToken(act.op, 1))
           config  == SwitchEngine(
                         IF act.op = "createActivity" THEN act.args.id ELSE Null,
                         act.args)
       IN  IF IsThrown(config)
           THEN act' = [act EXCEPT !.pc = "settled", !.outcome = "thrown",
                                   !.error = config.thrown]
           ELSE act' = [act EXCEPT !.pc = "awaitPost",
                                   !.net = Append(@, PostCall(
                                              ActivityUrl(act.op, act.args.id),
                                              config, headers))]
    /\ UNCHANGED <<remote, pg, co>>

\* authenticate rejected
ActivityAuthReject ==
    /\ act.pc = "awaitAuth"
    /\ act' = [act EXCEPT !.pc = "settled", !.outcome = "thrown",
                          !.error = "AuthenticationFailure"]
    /\ UNCHANGED <<remote, pg, co>>

\* POST resolved: the response is returned
ActivityPostResolve ==
    /\ act.pc = "awaitPost"
    /\ act' = [act EXCEPT !.pc = "settled", !.outcome = "returned"]
    /\ UNCHANGED <<remote, pg, co>>

\* POST rejected
ActivityPostReject ==
    /\ act.pc = "awaitPost"
    /\ act' = [act EXCEPT !.pc = "settled", !.outcome = "thrown",
                          !.error = "TransportFailure"]
    /\ UNCHANGED <<remote, pg, co>>

-----------------------------------------------------------------------------

Next ==
    \/ PagerCall
    \/ PagerNext
    \/ PagerReturn
    \/ PagerAuthResolve
    \/ PagerAuthReject
    \/ PagerGetResolve
    \/ PagerGetReject
    \/ CollectCall
    \/ CollectAuthResolve
    \/ CollectAuthReject
    \/ CollectGetResolve
    \/ CollectGetReject

Spec == Init /\ [][Next]_vars

\* the activity calls on their own; the listing endpoint plays no part
InitAct ==
    /\ remote = <<Response(<<NoToken>>, 1)>>
    /\ pg = PagerInit
    /\ co = CollectInit
    /\ act = ActInit

NextAct ==
    \/ createActivity
    \/ updateActivity
    \/ ActivityAuthResolve
    \/ ActivityAuthReject
    \/ ActivityPostResolve
    \/ ActivityPostReject

SpecAct == InitAct /\ [][NextAct]_vars

-----------------------------------------------------------------------------
(* Vocabulary of the pagination claims                                     *)

\* a response carries a continuation token: the field is present and not
\* the empty string
CarriesToken(r) == r.paginationToken \notin {NoToken, ""}

\* some response of the endpoint carries no continuation token
HasEnd == \E i \in 1..Len(remote) : ~CarriesToken(remote[i])

\* index of the first response without a continuation token
K == CHOOSE i \in 1..Len(remote) :
        /\ ~CarriesToken(remote[i])
        /\ \A j \in 1..(i - 1) : CarriesToken(remote[j])

RECURSIVE Flatten(_)
Flatten(pages) ==
    IF pages = <<>> THEN <<>> ELSE Head(pages) \o Flatten(Tail(pages))

\* the data arrays of the first n responses
FirstPages(n) == [i \in 1..n |-> remote[i].data]

\* what went over the wire, without the credentials: authenticate(scopes)
\* and GET url
Wire(net) ==
    [i \in 1..Len(net) |->
        IF net[i].op = "authenticate"
        THEN <<"authenticate", net[i].scopes>>
        ELSE <<"GET", net[i].url>>]

-----------------------------------------------------------------------------
(* Claims                                                                  *)

\* C1: when the endpoint answers with k pages of which only the last has no
\* continuation token, collect returns the concatenation of the k pages'
\* items in page order, after exactly k authenticate calls and k GETs (and
\* never issues more than k of either).
C1_CollectConcatenatesKPages ==
    (HasEnd /\ K = Len(remote)) =>
        /\ NumCalls(co.net, "authenticate") <= K
        /\ NumCalls(co.net, "GET") <= K
        /\ co.outcome = "returned" =>
              /\ co.value = Flatten(FirstPages(K))
              /\ NumCalls(co.net, "authenticate") = K
              /\ NumCalls(co.net, "GET") = K

C1_Witness ==
    /\ HasEnd /\ K = Len(remote) /\ K >= 2
    /\ co.outcome = "returned"

\* C2: on the same endpoint and the same remote responses, what collect
\* returns is the concatenation of the pages the lazy sequence yields when
\* driven to completion, and both put the same authenticate calls and GET
\* URLs on the wire, in the same order.
C2_CollectEqualsConcatenatedPages ==
    (co.outcome = "returned" /\ pg.outcome = "done"
        /\ co.endpoint = pg.endpoint) =>
        /\ co.value = Flatten(pg.yielded)
        /\ Wire(co.net) = Wire(pg.net)

C2_Witness ==
    /\ co.outcome = "returned" /\ pg.outcome = "done"
    /\ co.endpoint = pg.endpoint
    /\ Len(pg.yielded) >= 2

\* C3: the lazy sequence never reads ahead: after n pulls at most n
\* authenticate calls and n GETs have been issued, and a consumer that
\* stopped after the first page has caused exactly one of each, even when
\* that page carried a continuation token.
C3_NoReadAhead ==
    /\ NumCalls(pg.net, "authenticate") <= pg.pulls
    /\ NumCalls(pg.net, "GET") <= pg.pulls
    /\ (pg.outcome = "returned" /\ Len(pg.yielded) = 1) =>
          /\ NumCalls(pg.net, "authenticate") = 1
          /\ NumCalls(pg.net, "GET") = 1

C3_Witness ==
    /\ pg.outcome = "returned" /\ Len(pg.yielded) = 1
    /\ CarriesToken(pg.response)

\* C4: when the k-th response is the first without a continuation token,
\* the lazy sequence never yields more than k pages, and once fully consumed
\* it has yielded exactly the first k pages (one GET each) and completed; it
\* completes only on a response without a token.
C4_PagesYieldsKThenTerminates ==
    /\ HasEnd => Len(pg.yielded) <= K
    /\ pg.outcome = "done" =>
          /\ HasEnd
          /\ pg.yielded = FirstPages(K)
          /\ NumCalls(pg.net, "GET") = K
          /\ pg.pulls = K + 1
    /\ (HasEnd /\ pg.pc = "suspendedYield" /\ Len(pg.yielded) = K) =>
          ~Truthy(pg.response.paginationToken)

C4_Witness ==
    /\ pg.outcome = "done"
    /\ K >= 2 /\ K < Len(remote)

\* C5: a failed authenticate or GET makes collect fail with that error and
\* without a value; whenever collect does return a value it is the whole
\* collection up to the first response without a token, never a prefix.
C5_CollectNeverReturnsPartial ==
    /\ co.outcome = "thrown" =>
          /\ co.value = <<>>
          /\ co.error \in {"AuthenticationFailure", "TransportFailure"}
    /\ co.outcome = "returned" =>
          /\ co.error = "none"
          /\ HasEnd /\ co.served = K
          /\ co.value = Flatten(FirstPages(K))
    /\ co.pc = "settled" => co.outcome \in {"thrown", "returned"}

C5_Witness ==
    /\ co.outcome = "thrown"
    /\ co.served >= 1

\* the literal responses of the round-trip example: {data:[1,2]},
\* {data:[3], paginationToken:"X"}, {data:[4,5]}
LiteralTokens == <<NoToken, "X", NoToken>>

LiteralResponses == [i \in 1..3 |-> Response(LiteralTokens, i)]

\* the same three pages, the first one carrying a continuation token too
ChainedResponses(t) == [i \in 1..3 |-> Response(<<t, "X", NoToken>>, i)]

\* C6 as stated: on the literal responses collect yields [1,2,3,4,5].
C6_LiteralYieldsAllFive ==
    (remote = LiteralResponses /\ co.outcome = "returned") =>
        co.value = <<1, 2, 3, 4, 5>>

\* C6, amended: on the literal responses collect stops at the first
\* response, which has no paginationToken, and yields [1,2] after one GET;
\* it yields [1,2,3,4,5] when the first response carries a token as well.
C6_LiteralYieldsFirstPage ==
    /\ (remote = LiteralResponses /\ co.outcome = "returned") =>
          /\ co.value = <<1, 2>>
          /\ NumCalls(co.net, "GET") = 1
    /\ \A t \in {"X", "Y"} :
          (remote = ChainedResponses(t) /\ co.outcome = "returned") =>
              co.value = <<1, 2, 3, 4, 5>>

C6_Witness ==
    /\ remote = LiteralResponses
    /\ co.outcome = "returned"

-----------------------------------------------------------------------------
(* Vocabulary of the activity claims                                       *)

Called == act.op # "none"

EngineIs(name) == act.args.engine = EngineId(name)

KnownEngines == {"AutoCAD", "3dsMax", "Revit", "Inventor"}

\* the descriptors that were submitted to the remote service
Posted == {i \in 1..Len(act.net) : act.net[i].op = "POST"}

Names(descriptors) == {descriptors[i].name : i \in 1..Len(descriptors)}

\* the text of a command line: of the string, or of the array's strings
RECURSIVE JoinItems(_)
JoinItems(items) ==
    IF items = <<>> THEN <<>> ELSE Head(items).pieces \o JoinItems(Tail(items))

Text(commandLine) ==
    IF commandLine.type = "string" THEN commandLine.pieces
    ELSE JoinItems(commandLine.items)

Executable ==
    [AutoCAD |-> "accoreconsole.exe", Revit |-> "revitcoreconsole.exe",
     Inventor |-> "InventorCoreConsole.exe"]

\* C7: for the 3dsMax engine with more than one input the builder throws
\* its validation error instead of producing a descriptor, so that
\* createActivity/updateActivity never post anything and never return; the
\* call fails with that error (or with the authentication failure that
\* came first).
C7_3dsmaxManyInputsFails ==
    (Called /\ EngineIs("3dsMax") /\ Len(act.args.inputs) > 1) =>
        /\ Posted = {}
        /\ act.pc # "awaitPost"
        /\ act.outcome # "returned"
        /\ act.pc = "settled" =>
              /\ act.outcome = "thrown"
              /\ act.error \in {SingleInputOnly, "AuthenticationFailure"}

C7_Witness ==
    /\ EngineIs("3dsMax") /\ Len(act.args.inputs) = 2
    /\ act.outcome = "thrown" /\ act.error = SingleInputOnly

\* C8 as stated: with an engine name other than AutoCAD, 3dsMax, Revit,
\* Inventor the call fails and nothing is submitted to the remote service.
C8_UnknownEngineSubmitsNothing ==
    (Called /\ \A n \in KnownEngines : ~EngineIs(n)) =>
        /\ Posted = {}
        /\ act.outcome # "returned"

\* C9 as stated: when a validation failure surfaces, neither an
\* authenticate call nor a POST has been issued.
C9_ValidationBeforeAnyNetworkCall ==
    (act.outcome = "thrown" /\ act.error = SingleInputOnly) =>
        act.net = <<>>

\* C10: for AutoCAD, Revit and Inventor with at least one input and one
\* output, input and output names disjoint and no script, the submitted
\* command line reads: the engine's executable invocation with the app
\* bundle path, the input switch, then one $(args[<name>].path) per input in
\* input order; and the parameters are exactly a 'get' entry for every input
\* and a 'put' entry for every output.
C10_CommandLineAndParameters ==
    \A e \in {"AutoCAD", "Revit", "Inventor"} : \A i \in Posted :
        LET a    == act.args
            cfg  == act.net[i].json
            text == Text(cfg.commandLine)
            n    == Len(a.inputs)
        IN  (EngineIs(e) /\ n >= 1 /\ Len(a.outputs) >= 1 /\ a.script = ""
               /\ Names(a.inputs) \cap Names(a.outputs) = {}) =>
            /\ Len(text) = 6 + 3 * n
            /\ SubSeq(text, 1, 5) =
                 <<"$(engine.path)\\", Executable[e], " /al $(appbundles[",
                   a.bundleName, "].path)">>
            /\ text[6] = " /i"
            /\ \A j \in 1..n :
                 SubSeq(text, 4 + 3 * j, 6 + 3 * j) =
                     <<" $(args[", a.inputs[j].name, "].path)">>
            /\ DOMAIN cfg.parameters = Names(a.inputs) \cup Names(a.outputs)
            /\ \A j \in 1..n : cfg.parameters[a.inputs[j].name].verb = "get"
            /\ \A j \in 1..Len(a.outputs) :
                 cfg.parameters[a.outputs[j].name].verb = "put"

C10_Witness ==
    /\ Posted # {}
    /\ EngineIs("Inventor")
    /\ Len(act.args.inputs) = 2
    /\ act.args.inputs[1].name # act.args.inputs[2].name
    /\ Len(act.args.outputs) >= 1
    /\ Names(act.args.inputs) \cap Names(act.args.outputs) = {}
    /\ act.args.script = ""

\* the script placeholder each scripting variant appends
ScriptPlaceholder ==
    [AutoCAD |-> " /s $(settings[script].path)",
     3dsMax  |-> " \"$(settings[script].path)\""]

\* positions of the command line text that hold an input name
InputNamePositions(text, inputs) ==
    {p \in 1..Len(text) : \E j \in 1..Len(inputs) : text[p] = inputs[j].name}

\* C11: when a script is supplied to AutoCAD or 3dsMax, the submitted
\* descriptor carries it under settings.script and the script placeholder is
\* the last element of the command line, after every input placeholder; for
\* 3dsMax with one input the command line is the executable, the input
\* placeholder, then the script placeholder.
C11_ScriptPlaceholderLast ==
    \A e \in {"AutoCAD", "3dsMax"} : \A i \in Posted :
        LET a    == act.args
            cfg  == act.net[i].json
            text == Text(cfg.commandLine)
        IN  (EngineIs(e) /\ a.script # "") =>
            /\ "settings" \in DOMAIN cfg
            /\ cfg.settings = [script |-> a.script]
            /\ text[Len(text)] = ScriptPlaceholder[e]
            /\ \A p \in 1..(Len(text) - 1) : text[p] # ScriptPlaceholder[e]
            /\ Len(a.inputs) >= 1 => InputNamePositions(text, a.inputs) # {}
            /\ \A p \in InputNamePositions(text, a.inputs) : p + 1 < Len(text)
            /\ (e = "3dsMax" /\ Len(a.inputs) = 1) =>
                 text = <<"$(engine.path)\\3dsmaxbatch.exe",
                          " -sceneFile \"$(args[", a.inputs[1].name, "].path)\"",
                          " \"$(settings[script].path)\"">>

C11_Witness ==
    /\ Posted # {}
    /\ EngineIs("3dsMax")
    /\ Len(act.args.inputs) = 1
    /\ act.args.script # ""

\* the number of tokens a command line has when the base invocation, the
\* input switch, every input placeholder and the script switch are tokens
\* of their own (only AutoCAD takes a script)
TokenCount(e, a) ==
    1 + (IF Len(a.inputs) > 0 THEN 1 + Len(a.inputs) ELSE 0)
      + (IF e = "AutoCAD" /\ a.script # "" THEN 1 ELSE 0)

\* C12 as stated: the submitted commandLine is an array with one string per
\* token for AutoCAD, Revit and Inventor, and a single string for 3dsMax.
C12_CommandLineIsTokenArray ==
    \A i \in Posted :
        LET cfg == act.net[i].json
        IN  /\ \A e \in {"AutoCAD", "Revit", "Inventor"} : EngineIs(e) =>
                 /\ cfg.commandLine.type = "array"
                 /\ Len(cfg.commandLine.items) = TokenCount(e, act.args)
            /\ EngineIs("3dsMax") => cfg.commandLine.type = "string"

\* C12, amended: the submitted commandLine is an array holding exactly one
\* string, the whole command line, for AutoCAD, Revit and Inventor, and a
\* single string for 3dsMax, for every combination of inputs, outputs and
\* script.
C12_CommandLineIsOneStringArray ==
    \A i \in Posted :
        LET cfg == act.net[i].json
        IN  /\ \A e \in {"AutoCAD", "Revit", "Inventor"} : EngineIs(e) =>
                 /\ cfg.commandLine.type = "array"
                 /\ Len(cfg.commandLine.items) = 1
                 /\ cfg.commandLine.items[1].type = "string"
                 /\ Len(cfg.commandLine.items[1].pieces) =
                      5 + (IF Len(act.args.inputs) > 0
                           THEN 1 + 3 * Len(act.args.inputs) ELSE 0)
                        + (IF e = "AutoCAD" /\ act.args.script # "" THEN 1 ELSE 0)
            /\ EngineIs("3dsMax") => cfg.commandLine.type = "string"

C12_Witness ==
    /\ Posted # {}
    /\ EngineIs("AutoCAD")
    /\ Len(act.args.inputs) = 2
    /\ Len(act.args.outputs) = 2
    /\ act.args.script # ""

\* C13 as stated: for all four variants the descriptor createActivity
\* submits has the supplied activity identifier as its id, and the
\* descriptor updateActivity submits has no id field at all.
C13_IdOnCreateNoIdOnUpdate ==
    \A i \in Posted : \A e \in KnownEngines :
        LET cfg == act.net[i].json
        IN  EngineIs(e) =>
            /\ act.op = "createActivity" =>
                 ("id" \in DOMAIN cfg /\ cfg.id = act.args.id)
            /\ act.op = "updateActivity" => "id" \notin DOMAIN cfg

\* the positions of the GET requests in a log of network calls
Gets(net) == {j \in 1..Len(net) : net[j].op = "GET"}

\* the number of authenticate calls among the first j calls of a log
AuthsUpTo(net, j) == Cardinality({k \in 1..j : net[k].op = "authenticate"})

\* every GET of the log directly follows an authenticate call made with the
\* required scopes, and carries the access token that call returned to who
OwnTokenPerGet(who, net) ==
    \A j \in Gets(net) :
        /\ j >= 2
        /\ net[j - 1] = [op |-> "authenticate", scopes |-> <<"code:all">>]
        /\ net[j].headers =
             [Authorization |-> <<"Bearer ", AccessToken(who, AuthsUpTo(net, j))>>]
        /\ \A k \in Gets(net) : k # j => net[k].headers # net[j].headers

\* C14: in pages and in collect every GET is preceded by its own
\* authenticate call with the required scopes, made only after the previous
\* page's response arrived; the i-th GET carries Authorization: Bearer <the
\* access token of the i-th authenticate call>, so no token is used twice.
C14_FreshTokenPerPage ==
    /\ OwnTokenPerGet("pager", pg.net)
    /\ OwnTokenPerGet("collect", co.net)
    /\ NumCalls(pg.net, "authenticate") <= pg.served + 1
    /\ NumCalls(co.net, "authenticate") <= co.served + 1
    /\ \A j \in Gets(pg.net) : AuthsUpTo(pg.net, j) = Cardinality({k \in Gets(pg.net) : k <= j})
    /\ \A j \in Gets(co.net) : AuthsUpTo(co.net, j) = Cardinality({k \in Gets(co.net) : k <= j})

C14_Witness ==
    /\ NumCalls(pg.net, "GET") >= 3
    /\ NumCalls(co.net, "GET") >= 3

\* the n-th GET of a log
NthGet(net, n) ==
    net[CHOOSE j \in Gets(net) : Cardinality({k \in Gets(net) : k <= j}) = n]

\* the URLs of a call on endpoint: the first GET goes to the bare endpoint,
\* and the (n+1)-th GET exists only if the n-th response carries a token
\* for which more(token) holds, and then goes to the same endpoint with
\* page=<that token> appended
UrlChain(c, more(_)) ==
    \A n \in 1..NumCalls(c.net, "GET") :
        IF n = 1
        THEN NthGet(c.net, 1).url =
                <<"https://developer.api.autodesk.com", "/da/us-east/v3", c.endpoint>>
        ELSE /\ more(remote[n - 1].paginationToken)
             /\ NthGet(c.net, n).url =
                  <<"https://developer.api.autodesk.com", "/da/us-east/v3",
                    c.endpoint, "?page=", remote[n - 1].paginationToken>>

\* a call that ended normally ended on a response whose token does not ask
\* for more; collect goes on by itself after a response that does
StopsOnlyWithout(more(_)) ==
    /\ pg.outcome = "done" => ~more(remote[pg.served].paginationToken)
    /\ co.outcome = "returned" => ~more(remote[co.served].paginationToken)
    /\ (co.served >= 1 /\ more(remote[co.served].paginationToken)) =>
          co.pc \in {"awaitAuth", "awaitGet"} \/ co.outcome = "thrown"

IsPresent(tok) == tok # NoToken

IsNonEmpty(tok) == tok # NoToken /\ tok # ""

\* C15 as stated: the first request targets the bare endpoint, and after
\* each response a further request is issued if and only if the response
\* carries a paginationToken, whatever string it is; it targets the same
\* endpoint with page=<token of the immediately preceding response>.
C15_ContinuesOnAnyToken ==
    /\ UrlChain(pg, IsPresent)
    /\ UrlChain(co, IsPresent)
    /\ StopsOnlyWithout(IsPresent)

\* C15, amended: as stated, except that a further request is issued if and
\* only if the response carries a non-empty paginationToken: an absent
\* token and the empty string both end the iteration.
C15_ContinuesOnNonEmptyToken ==
    /\ UrlChain(pg, IsNonEmpty)
    /\ UrlChain(co, IsNonEmpty)
    /\ StopsOnlyWithout(IsNonEmpty)

C15_Witness ==
    /\ NumCalls(co.net, "GET") = 3
    /\ NumCalls(pg.net, "GET") = 3
    /\ remote[1].paginationToken # remote[2].paginationToken

\* the calls of a log go out strictly in turn: authenticate, GET,
\* authenticate, GET, ...
Alternates(net) ==
    \A i \in 1..Len(net) :
        net[i].op = IF i % 2 = 1 THEN "authenticate" ELSE "GET"

\* every call of the log but the one being awaited has been answered: a
\* page received accounts for one authenticate and one GET; a call that
\* waits for nothing has nothing outstanding
OneAtATime(c) ==
    /\ Alternates(c.net)
    /\ Len(c.net) <= 2 * c.served + 2
    /\ c.pc = "awaitAuth" => Len(c.net) = 2 * c.served + 1
    /\ c.pc = "awaitGet" => Len(c.net) = 2 * c.served + 2
    /\ (c.pc \notin {"awaitAuth", "awaitGet"} /\ c.outcome # "thrown") =>
          Len(c.net) = 2 * c.served
    /\ (c.outcome = "thrown" /\ c.error = "AuthenticationFailure") =>
          Len(c.net) = 2 * c.served + 1
    /\ (c.outcome = "thrown" /\ c.error = "TransportFailure") =>
          Len(c.net) = 2 * c.served + 2

\* C16: within one pager iteration and within one collect call at most one
\* authenticate or GET is outstanding at any time, and the requests for
\* page n+1 are issued only after the response for page n has arrived.
C16_OneOutstandingCall ==
    /\ OneAtATime(pg)
    /\ OneAtATime(co)

C16_Witness ==
    /\ co.pc = "awaitGet" /\ co.served = 2
    /\ pg.pc = "awaitAuth" /\ pg.served = 1

\* what the consumer holds after an error never changes again
NothingAfterError ==
    pg.outcome = "thrown" => pg' = pg

\* C17: when the authenticate or the GET for page n fails in a pager
\* iteration, the consumer has received pages 1..n-1 intact and in order,
\* the error is the result of the n-th pull, and afterwards the generator is
\* completed and yields nothing more.
C17_ErrorAtFailingPull ==
    /\ [](pg.outcome = "thrown" =>
            /\ pg.pc = "completed"
            /\ pg.yielded = FirstPages(pg.served)
            /\ pg.pulls = pg.served + 1
            /\ Len(pg.net) \in {2 * pg.served + 1, 2 * pg.served + 2})
    /\ [][NothingAfterError]_vars

C17_Witness ==
    /\ pg.outcome = "thrown"
    /\ pg.error = "TransportFailure"
    /\ pg.served = 2

\* the access tokens a call sends are those of its own authenticate calls
OwnTokensOnly(who, c) ==
    \A i \in Gets(c.net) :
        \E k \in 1..NumCalls(c.net, "authenticate") :
            c.net[i].headers = BearerHeaders(AccessToken(who, k))

\* C18: a pager iteration and a collect call on the same client, on
\* different endpoints or on the same one, share no state: under every
\* interleaving each sends its own access tokens, its own endpoint and the
\* continuation tokens of its own responses, each starts from the bare
\* endpoint, and each delivers what it delivers alone: the first K pages.
C18_CallsShareNoState ==
    /\ OwnTokensOnly("pager", pg)
    /\ OwnTokensOnly("collect", co)
    /\ UrlChain(pg, IsNonEmpty)
    /\ UrlChain(co, IsNonEmpty)
    /\ pg.outcome # "thrown" => pg.yielded = FirstPages(pg.served)
    /\ pg.outcome = "done" => pg.yielded = FirstPages(K)
    /\ co.outcome = "returned" => co.value = Flatten(FirstPages(K))

C18_Witness ==
    /\ pg.pc = "awaitGet" /\ co.pc = "awaitGet"
    /\ pg.endpoint # co.endpoint
    /\ pg.served = 2 /\ co.served = 1
    /\ remote[1].paginationToken # remote[2].paginationToken

\* a call that has failed issues nothing more
NothingSentAfterError ==
    /\ pg.outcome = "thrown" => pg'.net = pg.net
    /\ co.outcome = "thrown" => co'.net = co.net

\* one authenticate and one GET per page at most, and a failure ends the
\* call where it stands
NoRetry(c) ==
    /\ NumCalls(c.net, "authenticate") <= c.served + 1
    /\ NumCalls(c.net, "GET") <= c.served + 1
    /\ (c.outcome = "thrown" /\ c.error = "AuthenticationFailure") =>
          /\ NumCalls(c.net, "authenticate") = c.served + 1
          /\ NumCalls(c.net, "GET") = c.served
    /\ (c.outcome = "thrown" /\ c.error = "TransportFailure") =>
          /\ NumCalls(c.net, "authenticate") = c.served + 1
          /\ NumCalls(c.net, "GET") = c.served + 1

\* C19: the pager and collect never retry: after the first failed
\* authenticate or GET the call issues no further request, and a failed
\* authenticate for page n means the GET for page n is never issued.
C19_NoRetry ==
    /\ [](NoRetry(pg) /\ NoRetry(co))
    /\ [][NothingSentAfterError]_vars

C19_Witness ==
    /\ co.outcome = "thrown" /\ co.error = "AuthenticationFailure"
    /\ co.served = 1
    /\ pg.outcome = "thrown" /\ pg.error = "TransportFailure"

\* what opens an argument placeholder in a command line
ArgsOpeners == {" $(args[", " -sceneFile \"$(args["}

\* the names the argument placeholders of a command line text refer to, in
\* the order in which they appear
RECURSIVE PlaceholderNames(_)
PlaceholderNames(text) ==
    IF Len(text) < 2 THEN <<>>
    ELSE IF Head(text) \in ArgsOpeners
    THEN <<text[2]>> \o PlaceholderNames(Tail(text))
    ELSE PlaceholderNames(Tail(text))

\* the output is the last one of its name, so that no later output
\* overwrites its entry
LastOfItsName(outputs, j) ==
    \A k \in (j + 1)..Len(outputs) : outputs[k].name # outputs[j].name

\* the entry is { verb: 'put' } with the description and the localName of
\* the output exactly when the output has them
IsPutEntryOf(entry, output) ==
    /\ DOMAIN entry \subseteq {"verb", "description", "localName"}
    /\ entry.verb = "put"
    /\ ("description" \in DOMAIN entry) <=> (output.description # "")
    /\ output.description # "" => entry.description = output.description
    /\ ("localName" \in DOMAIN entry) <=> (output.localName # "")
    /\ output.localName # "" => entry.localName = output.localName

\* C20: for each of the four engine variants and any number of outputs,
\* every output name is a parameter of the submitted descriptor with verb
\* 'put', carrying the description and the localName of the (last) output
\* of that name exactly when supplied; the argument placeholders of the
\* command line are those of the inputs and nothing else, and the command
\* line is the one submitted for an empty list of outputs.
C20_OutputsArePutParametersOnly ==
    \A e \in KnownEngines : \A i \in Posted :
        LET a    == act.args
            cfg  == act.net[i].json
            text == Text(cfg.commandLine)
        IN  EngineIs(e) =>
            /\ \A j \in 1..Len(a.outputs) :
                 /\ a.outputs[j].name \in DOMAIN cfg.parameters
                 /\ cfg.parameters[a.outputs[j].name].verb = "put"
                 /\ LastOfItsName(a.outputs, j) =>
                      IsPutEntryOf(cfg.parameters[a.outputs[j].name], a.outputs[j])
            /\ PlaceholderNames(text) =
                 [j \in 1..Len(a.inputs) |-> a.inputs[j].name]
            /\ cfg.commandLine =
                 SwitchEngine(Null, [a EXCEPT !.outputs = <<>>]).commandLine

C20_Witness ==
    /\ Posted # {}
    /\ EngineIs("AutoCAD")
    /\ Len(act.args.inputs) = 2
    /\ Len(act.args.outputs) = 2
    /\ act.args.outputs[1].name = "a" /\ act.args.outputs[1].localName = "f"
    /\ act.args.outputs[2] = [name |-> "c", description |-> "", localName |-> "f"]


\* no two descriptors of the list carry the same name
DistinctNames(descriptors) ==
    \A j, k \in 1..Len(descriptors) :
        descriptors[j].name = descriptors[k].name => j = k

\* C21 as stated: parameter names stay unique across inputs and outputs
\* combined. For each of the four engine variants, called with inputs of
\* distinct names and outputs of distinct names, the submitted descriptor
\* has as many parameter entries as there are inputs and outputs together,
\* and every input still has its 'get' entry: no output's 'put' entry has
\* replaced it.
C21_NoSilentOverwrite ==
    \A e \in KnownEngines : \A i \in Posted :
        LET a   == act.args
            cfg == act.net[i].json
        IN  (EngineIs(e) /\ DistinctNames(a.inputs) /\ DistinctNames(a.outputs)) =>
            /\ Cardinality(DOMAIN cfg.parameters) = Len(a.inputs) + Len(a.outputs)
            /\ \A j \in 1..Len(a.inputs) :
                 cfg.parameters[a.inputs[j].name].verb = "get"

====
